---- MODULE Spec2Model ----
(***************************************************************************)
(* Offline/online reconciliation of deacon-os.py: the local cache file,    *)
(* the remote store behind API_URL, the in-memory projects_data, the       *)
(* status label, and the handlers load_data / save_data / add_project /    *)
(* toggle_status / delete_project / break_down_project, together with the  *)
(* pure function merge_data.                                               *)
(*                                                                         *)
(* Two specifications:                                                     *)
(*   Spec       the session: main() runs load_data, then the UI handlers   *)
(*              run one at a time (single control thread).                 *)
(*   SpecMerge  merge_data applied once to every pair of bounded inputs.   *)
(***************************************************************************)
EXTENDS Integers, Sequences, FiniteSets

VARIABLES
    projects_data,  \* the working set (global projects_data), a sequence
    local_file,     \* the file CONFIG["LOCAL_FILE"]
    remote,         \* what the remote endpoint holds (sequence of records)
    status_label,   \* text of status_label, abstracted to a tag
    last,           \* what the last handler did (observation of its path)
    server_data,    \* SpecMerge: first argument of merge_data
    local_data,     \* SpecMerge: second argument of merge_data
    merge_result,   \* SpecMerge: value returned by merge_data
    mpc             \* SpecMerge: "ready" before the call, "done" after

vars == <<projects_data, local_file, remote, status_label, last,
          server_data, local_data, merge_result, mpc>>

sessionVars == <<projects_data, local_file, remote, status_label, last>>
mergeVars == <<server_data, local_data, merge_result, mpc>>

----------------------------------------------------------------------------
(* Bounds *)

\* longest list held by the remote store or the cache file at start
MaxStored == 2
\* no handler is taken whose working set would be longer than this
MaxLen == 2
\* most sub-tasks one breakdown reply is split into
MaxSub == 1
\* longest input list given to merge_data in SpecMerge
MaxMergeLen == 3

\* project names
NameSet == {"A", "B"}

----------------------------------------------------------------------------
(* Values *)

\* A list entry.  A JSON object (Python dict) with "name" and "completed",
\* or any other JSON value (isdict = FALSE), which is no record.
Project(n, c) == [isdict |-> TRUE, name |-> n, completed |-> c]
NonRecord == [isdict |-> FALSE, name |-> "", completed |-> FALSE]

Records == {Project(n, c) : n \in NameSet, c \in BOOLEAN}
Entries == Records \cup {NonRecord}

SeqsUpTo(S, n) == UNION {[1..k -> S] : k \in 0..n}

\* A parsed JSON body: a list of entries, or something that is no list.
JsonList(s) == [islist |-> TRUE, items |-> s]
NotAList == [islist |-> FALSE, items |-> <<>>]

\* The cache file: absent, present but not valid JSON, or a JSON list.
Absent == [state |-> "absent", items |-> <<>>]
Corrupt == [state |-> "corrupt", items |-> <<>>]
JsonFile(s) == [state |-> "json", items |-> s]

----------------------------------------------------------------------------
(* Outcomes the environment decides *)

\* requests.get + raise_for_status + response.json():
\*   "ok"          2xx, the body is the JSON list the remote store holds
\*   "not_list"    2xx, the body is valid JSON but no list (an object)
\*   "unparseable" 2xx, the body is no JSON: response.json() raises ValueError
\*   "failed"      connection error, timeout or non-2xx: RequestException
FetchOutcomes == {"ok", "not_list", "unparseable", "failed"}

\* requests.post + raise_for_status: the remote store is replaced wholesale
\* on "ok" and untouched on "failed".
PushOutcomes == {"ok", "failed"}

\* open(LOCAL_FILE, 'w') + json.dump:
\*   "ok"      the file holds the dumped list
\*   "failed"  the write raised after open() had truncated the file: what
\*             is left does not parse.  (open() itself raising, which leaves
\*             the file as it was, is left out: it makes the old content of
\*             the file a third free list next to projects_data and remote.)
WriteOutcomes == {"ok", "failed"}

\* What one call of save_data can meet: the push succeeds and nothing is
\* written, or the push fails and the write ends one of the two ways.
SaveOutcomes == {<<"ok", "none">>} \cup {<<"failed", w>> : w \in WriteOutcomes}

\* The observation a handler leaves behind.
Obs(op, fetch, pushes, push_ok, write, payload) ==
    [op |-> op, fetch |-> fetch, pushes |-> pushes, push_ok |-> push_ok,
     write |-> write, payload |-> payload]

----------------------------------------------------------------------------
(* Local store *)

\* load_local_data(): the parsed file, or [] when it is absent or json.load
\* raises.
load_local_data(file) ==
    IF file.state = "json" THEN JsonList(file.items) ELSE JsonList(<<>>)

\* save_local_data(data): the file after the call.  A failure is shown in a
\* message box and swallowed.
save_local_data(data, file, write) ==
    IF write = "ok" THEN JsonFile(data) ELSE Corrupt

\* if os.path.exists(LOCAL_FILE): os.remove(LOCAL_FILE)
remove_local(file) == Absent

----------------------------------------------------------------------------
(* merge_data *)

\* if not isinstance(x, list): x = []
as_list(x) == IF x.islist THEN x.items ELSE <<>>

\* {p.get("name") for p in server_data if isinstance(p, dict)}
server_names(items) ==
    {items[i].name : i \in {j \in 1..Len(items) : items[j].isdict}}

\* The for loop over local_data: acc is server_data as appended so far,
\* merged the flag, names the set server_names (never updated in the loop).
RECURSIVE merge_loop(_, _, _, _)
merge_loop(acc, merged, names, rest) ==
    IF rest = <<>>
    THEN [data |-> acc, merged |-> merged]
    ELSE LET local_proj == Head(rest) IN
         IF local_proj.isdict /\ local_proj.name \notin names
         THEN merge_loop(Append(acc, local_proj), TRUE, names, Tail(rest))
         ELSE merge_loop(acc, merged, names, Tail(rest))

\* merge_data without the test against server_names.
merge_data_no_name_test(sd, ld) ==
    merge_loop(as_list(sd), FALSE, {}, as_list(ld))

\* merge_data walking local_data from its end.
Reverse(s) == [i \in 1..Len(s) |-> s[Len(s) + 1 - i]]
merge_data_reversed(sd, ld) ==
    merge_loop(as_list(sd), FALSE, server_names(as_list(sd)),
               Reverse(as_list(ld)))

\* merge_data raising the flag for any dict in local_data, appended or not.
merge_data_eager_flag(sd, ld) ==
    [data |-> merge_loop(as_list(sd), FALSE, server_names(as_list(sd)),
                         as_list(ld)).data,
     merged |-> \E i \in 1..Len(as_list(ld)) : as_list(ld)[i].isdict]

\* merge_data adding each appended name to the name set.
RECURSIVE merge_loop_dedupe(_, _, _, _)
merge_loop_dedupe(acc, merged, names, rest) ==
    IF rest = <<>>
    THEN [data |-> acc, merged |-> merged]
    ELSE LET local_proj == Head(rest) IN
         IF local_proj.isdict /\ local_proj.name \notin names
         THEN merge_loop_dedupe(Append(acc, local_proj), TRUE,
                                names \cup {local_proj.name}, Tail(rest))
         ELSE merge_loop_dedupe(acc, merged, names, Tail(rest))

merge_data_dedupe(sd, ld) ==
    merge_loop_dedupe(as_list(sd), FALSE, server_names(as_list(sd)),
                      as_list(ld))

merge_data(sd, ld) ==
    merge_loop(as_list(sd), FALSE, server_names(as_list(sd)), as_list(ld))

----------------------------------------------------------------------------
(* Sync controller *)

\* save_data with the removal of the cache file after a successful push
\* left out.
save_data_keeps_cache(pd, file, rem, push, write) ==
    IF push = "ok"
    THEN [projects_data |-> pd, local_file |-> file,
          remote |-> pd, status_label |-> "OnlineSynced",
          pushes |-> 1, push_ok |-> TRUE, write |-> "none", payload |-> pd]
    ELSE [projects_data |-> pd,
          local_file |-> save_local_data(pd, file, write),
          remote |-> rem, status_label |-> "OfflineSavedLocally",
          pushes |-> 1, push_ok |-> FALSE, write |-> write, payload |-> pd]

\* save_data(): projects_data is POSTed; on success the status is Online
\* (Synced) and the cache file is removed; on RequestException the list is
\* written to the cache file and the status is Offline (Saved Locally).
save_data(pd, file, rem, push, write) ==
    IF push = "ok"
    THEN [projects_data |-> pd, local_file |-> remove_local(file),
          remote |-> pd, status_label |-> "OnlineSynced",
          pushes |-> 1, push_ok |-> TRUE, write |-> "none", payload |-> pd]
    ELSE [projects_data |-> pd,
          local_file |-> save_local_data(pd, file, write),
          remote |-> rem, status_label |-> "OfflineSavedLocally",
          pushes |-> 1, push_ok |-> FALSE, write |-> write, payload |-> pd]

\* The except branch with the assignment of projects_data left out.
load_fallback_keeps_data(pd, file, rem) ==
    [projects_data |-> pd, local_file |-> file,
     remote |-> rem, status_label |-> "OfflineLocalMode",
     pushes |-> 0, push_ok |-> FALSE, write |-> "none", payload |-> <<>>]

\* load_data(), except branch (RequestException, ValueError).
load_fallback(pd, file, rem) ==
    [projects_data |-> as_list(load_local_data(file)), local_file |-> file,
     remote |-> rem, status_label |-> "OfflineLocalMode",
     pushes |-> 0, push_ok |-> FALSE, write |-> "none", payload |-> <<>>]

\* load_data(), try branch once response.json() has returned body.
load_fetched(body, file, rem, push, write) ==
    LET m == merge_data(body, load_local_data(file)) IN
    IF m.merged
    THEN LET s == save_data(m.data, file, rem, push, write) IN
         [s EXCEPT !.local_file = remove_local(s.local_file),
                   !.status_label = "OnlineSynced"]
    ELSE [projects_data |-> m.data, local_file |-> file, remote |-> rem,
          status_label |-> "OnlineSynced",
          pushes |-> 0, push_ok |-> FALSE, write |-> "none",
          payload |-> <<>>]

load_data(pd, file, rem, fetch, push, write) ==
    CASE fetch = "ok" -> load_fetched(JsonList(rem), file, rem, push, write)
      [] fetch = "not_list" -> load_fetched(NotAList, file, rem, push, write)
      [] OTHER -> load_fallback(pd, file, rem)

\* The handler's effect r becomes the next state.
Apply(op, fetch, r) ==
    /\ projects_data' = r.projects_data
    /\ local_file' = r.local_file
    /\ remote' = r.remote
    /\ status_label' = r.status_label
    /\ last' = Obs(op, fetch, r.pushes, r.push_ok, r.write, r.payload)
    /\ UNCHANGED mergeVars

----------------------------------------------------------------------------
(* Handlers *)

\* main() calls load_data() before the event loop starts; the Sync button
\* calls it again at any time.
Load ==
    \E fetch \in FetchOutcomes, o \in SaveOutcomes :
        LET r == load_data(projects_data, local_file, remote, fetch, o[1], o[2])
        IN  /\ Len(r.projects_data) <= MaxLen
            /\ Apply("load", fetch, r)

Started == last.op # "none"

RemoveAt(s, i) == SubSeq(s, 1, i - 1) \o SubSeq(s, i + 1, Len(s))

\* add_project(): a non-empty name, with or without the estimate appended.
add_project ==
    /\ Started
    /\ Len(projects_data) < MaxLen
    /\ \E name \in NameSet, o \in SaveOutcomes :
         Apply("add", "none",
               save_data(Append(projects_data, Project(name, FALSE)),
                         local_file, remote, o[1], o[2]))

\* toggle_status(): a row is selected.
toggle_status ==
    /\ Started
    /\ \E current_row \in 1..Len(projects_data), o \in SaveOutcomes :
         Apply("toggle", "none",
               save_data([projects_data EXCEPT ![current_row].completed = ~@],
                         local_file, remote, o[1], o[2]))

\* delete_project(): a row is selected.
delete_project ==
    /\ Started
    /\ \E current_row \in 1..Len(projects_data), o \in SaveOutcomes :
         Apply("delete", "none",
               save_data(RemoveAt(projects_data, current_row),
                         local_file, remote, o[1], o[2]))

SubTasks(names) == [i \in 1..Len(names) |-> Project(names[i], FALSE)]

\* break_down_project(): a row is selected and the reply splits into a
\* non-empty list of sub-task names.
break_down_project ==
    /\ Started
    /\ \E current_row \in 1..Len(projects_data),
          sub_tasks \in SeqsUpTo(NameSet, MaxSub) \ {<<>>},
          o \in SaveOutcomes :
         /\ Len(projects_data) - 1 + Len(sub_tasks) <= MaxLen
         /\ Apply("breakdown", "none",
                  save_data(RemoveAt(projects_data, current_row)
                                \o SubTasks(sub_tasks),
                            local_file, remote, o[1], o[2]))

----------------------------------------------------------------------------
(* Spec: the session *)

StoredLists == SeqsUpTo(Records, MaxStored)

Init ==
    /\ projects_data = <<>>
    /\ local_file \in {Absent, Corrupt} \cup {JsonFile(s) : s \in StoredLists}
    /\ remote \in StoredLists
    /\ status_label = "Checking"
    /\ last = Obs("none", "none", 0, FALSE, "none", <<>>)
    /\ server_data = NotAList
    /\ local_data = NotAList
    /\ merge_result = [data |-> <<>>, merged |-> FALSE]
    /\ mpc = "idle"

Next ==
    \/ Load
    \/ add_project
    \/ toggle_status
    \/ delete_project
    \/ break_down_project

Spec == Init /\ [][Next]_vars

----------------------------------------------------------------------------
(* SpecMerge: merge_data on every pair of bounded inputs *)

MergeInputs == {NotAList} \cup {JsonList(s) : s \in SeqsUpTo(Entries, MaxMergeLen)}

InitMerge ==
    /\ projects_data = <<>>
    /\ local_file = Absent
    /\ remote = <<>>
    /\ status_label = "Checking"
    /\ last = Obs("none", "none", 0, FALSE, "none", <<>>)
    /\ server_data \in MergeInputs
    /\ local_data \in MergeInputs
    /\ merge_result = [data |-> <<>>, merged |-> FALSE]
    /\ mpc = "ready"

MergeCall ==
    /\ mpc = "ready"
    /\ merge_result' = merge_data(server_data, local_data)
    /\ mpc' = "done"
    /\ UNCHANGED <<server_data, local_data>>
    /\ UNCHANGED sessionVars

NextMerge == MergeCall

SpecMerge == InitMerge /\ [][NextMerge]_vars

----------------------------------------------------------------------------
(* Properties of the session (Spec) *)

\* What a reader of the cache file gets: its list, or nothing when the file
\* is absent or does not parse.
CacheContents(file) == IF file.state = "json" THEN file.items ELSE <<>>

SaveOps == {"add", "toggle", "delete", "breakdown"}

\* C1: the cache file is removed only by a handler whose push succeeded.
C1_CacheRemovedOnlyAfterPush ==
    [][(local_file.state # "absent" /\ local_file'.state = "absent")
          => (last'.pushes >= 1 /\ last'.push_ok)]_vars

\* C2: a Load whose fetch failed leaves the working set equal to what the
\* cache held before it (nothing when absent or corrupt), the status
\* Offline (Local Mode), no push made, cache file and remote store as before.
C2_FallbackYieldsCache ==
    [][(last'.op = "load" /\ last'.fetch = "failed")
          => /\ projects_data' = CacheContents(local_file)
             /\ status_label' = "OfflineLocalMode"
             /\ last'.pushes = 0
             /\ local_file' = local_file
             /\ remote' = remote]_vars

C2_Witness ==
    /\ last.op = "load"
    /\ last.fetch = "failed"
    /\ local_file.state = "json"
    /\ projects_data = local_file.items
    /\ projects_data # <<>>
    /\ remote # projects_data

C4_MalformedBodyIsUnavailable ==
    [][(last'.op = "load" /\ last'.fetch = "not_list")
          => /\ projects_data' = CacheContents(local_file)
             /\ status_label' = "OfflineLocalMode"
             /\ last'.pushes = 0]_vars

\* C10: after a Load whose fetch returned the remote list, or a Save, status
\* Online (Synced) means the remote store equals the working set.
C10_SyncedMeansRemoteEqual ==
    (last.op # "none" /\ last.fetch # "not_list"
        /\ status_label = "OnlineSynced")
        => remote = projects_data

----------------------------------------------------------------------------
(* Properties of merge_data (SpecMerge) *)

BothLists == mpc = "done" /\ server_data.islist /\ local_data.islist

\* names of the records of a list
NamesIn(s) == {s[i].name : i \in {j \in 1..Len(s) : s[j].isdict}}

\* what merge_data appended behind the first n entries
After(s, n) == SubSeq(s, n + 1, Len(s))

\* C5: the result begins with R as it was, and no record behind R carries a
\* name of a record of R.
C5_RemotePrecedence ==
    BothLists =>
        LET R == server_data.items
            out == merge_result.data
        IN  /\ Len(out) >= Len(R)
            /\ SubSeq(out, 1, Len(R)) = R
            /\ \A i \in 1..Len(out) :
                   (out[i].isdict /\ out[i].name \in NamesIn(R)) => i <= Len(R)

C5_Witness ==
    /\ mpc = "done"
    /\ server_data = JsonList(<<Project("A", FALSE)>>)
    /\ local_data = JsonList(<<Project("A", TRUE)>>)
    /\ merge_result.data = <<Project("A", FALSE)>>

\* C6: behind R the result holds the records of L whose names are not names
\* of R, in the order of L.
AbsentFrom(R, p) == p.isdict /\ p.name \notin NamesIn(R)

C6_LocalCompleteness ==
    BothLists =>
        LET R == server_data.items
            L == local_data.items
            Missing(p) == AbsentFrom(R, p)
        IN  After(merge_result.data, Len(R)) = SelectSeq(L, Missing)

C6_Witness ==
    /\ mpc = "done"
    /\ server_data = JsonList(<<NonRecord>>)
    /\ local_data = JsonList(<<Project("B", TRUE), Project("A", FALSE)>>)
    /\ merge_result.data
          = <<NonRecord, Project("B", TRUE), Project("A", FALSE)>>

\* C7: the flag is true exactly when the result is longer than R.
C7_ChangedFlag ==
    BothLists =>
        (merge_result.merged
            <=> Len(merge_result.data) > Len(server_data.items))

C7_Witness ==
    /\ mpc = "done"
    /\ server_data = JsonList(<<Project("A", FALSE)>>)
    /\ local_data = JsonList(<<Project("A", TRUE), Project("B", TRUE)>>)
    /\ merge_result.merged
    /\ Len(merge_result.data) = 2

\* C8: every entry of the result is a record, and an input that is no list
\* counts as empty.
C8_OnlyRecords ==
    mpc = "done" =>
        /\ \A i \in 1..Len(merge_result.data) : merge_result.data[i].isdict
        /\ ~server_data.islist =>
               merge_result = merge_data(JsonList(<<>>), local_data)
        /\ ~local_data.islist =>
               merge_result = merge_data(server_data, JsonList(<<>>))

\* number of records named n in s
Count(s, n) == Cardinality({i \in 1..Len(s) : s[i].isdict /\ s[i].name = n})

\* C9 as claimed: of the local records sharing a name absent from R only the
\* first is appended.
C9_DuplicatesCollapse ==
    BothLists =>
        \A n \in NameSet \ NamesIn(server_data.items) :
            Count(After(merge_result.data, Len(server_data.items)), n) <= 1

\* C9 amended: the name set is the names of R and is not added to, so every
\* local record whose name is absent from R is appended, duplicates included.
C9_DuplicatesKept ==
    BothLists =>
        \A n \in NameSet \ NamesIn(server_data.items) :
            Count(After(merge_result.data, Len(server_data.items)), n)
                = Count(local_data.items, n)

C9_Witness ==
    /\ mpc = "done"
    /\ server_data = JsonList(<<Project("A", FALSE)>>)
    /\ local_data = JsonList(<<Project("B", FALSE), Project("B", TRUE)>>)
    /\ merge_result.data
          = <<Project("A", FALSE), Project("B", FALSE), Project("B", TRUE)>>

====
